---- MODULE Spec2Model ----
(***************************************************************************)
(* Model of internal/grpc/interceptor.go: the unary error interceptor      *)
(* (UnaryServerErrorInterceptor) and the error classifier                  *)
(* (convertToGRPCError).                                                   *)
(*                                                                         *)
(* An error value is a record [kind, msg, code, inner]:                    *)
(*   kind  "plain"    errors.New(msg)                                      *)
(*         "canceled" the sentinel context.Canceled                        *)
(*         "deadline" the sentinel context.DeadlineExceeded                *)
(*         "status"   status.Error(code, msg): carries a status object     *)
(*         "wrap"     an error with Unwrap() error, inner = <<cause>>      *)
(*         "multi"    an error with Unwrap() []error (errors.Join, several *)
(*                    %w verbs), inner = the wrapped errors                *)
(*         "nil"      the nil error                                        *)
(*   msg   what Error() returns, a sequence of lexemes (words and          *)
(*         punctuation); for "status" the status message                   *)
(* strings.Contains is modelled on the lexeme sequences: a contiguous      *)
(* sub-sequence.                                                           *)
(***************************************************************************)
EXTENDS Integers, Sequences, FiniteSets, TLC

VARIABLES
    calls,           \* the unary RPC calls that reach the interceptor
    pc,              \* pc[p]: position of call p in the interceptor / classifier
    handlerResp,     \* what the application handler of call p returns: response
    handlerErr,      \*   and error (NilErr on success)
    resp,            \* interceptor local resp (line 111)
    err,             \* interceptor local err (line 111) = classifier parameter
    unwrappedErr,    \* classifier local unwrappedErr (line 126)
    errMsg,          \* classifier local errMsg (line 141)
    ret,             \* value returned by convertToGRPCError
    rule,            \* which return statement of convertToGRPCError produced ret
    outResp,         \* response the interceptor returns to the transport
    outErr,          \* error the interceptor returns to the transport
    handlerCalls,    \* number of times the handler of call p was invoked
    classifierCalls, \* number of times convertToGRPCError was invoked for call p
    logSink          \* the process-wide zerolog sink: records written by log.Debug()

vars ==
    <<calls, pc, handlerResp, handlerErr, resp, err, unwrappedErr, errMsg, ret,
      rule, outResp, outErr, handlerCalls, classifierCalls, logSink>>

(***************************************************************************)
(* Bounds                                                                  *)
(***************************************************************************)
\* number of unary calls handled concurrently (ConcurrentSpec)
NumCalls ==
    2

\* an error text is a concatenation of at most MaxFragments fragments
MaxFragments ==
    2

\* longest Unwrap chain below the top-level error
MaxDepth ==
    3

Calls ==
    1..NumCalls

(***************************************************************************)
(* Strings                                                                 *)
(***************************************************************************)
\* strings.Contains(s, substr)
Contains(s, substr) ==
    \E i \in 0..(Len(s) - Len(substr)) : SubSeq(s, i + 1, i + Len(substr)) = substr

(***************************************************************************)
(* Error values and the library calls the classifier makes                 *)
(***************************************************************************)
\* google.golang.org/grpc/codes
Codes ==
    {"OK", "Canceled", "Unknown", "InvalidArgument", "DeadlineExceeded", "NotFound",
     "AlreadyExists", "PermissionDenied", "ResourceExhausted", "FailedPrecondition",
     "Aborted", "OutOfRange", "Unimplemented", "Internal", "Unavailable", "DataLoss",
     "Unauthenticated"}

NoCode ==
    "-"

\* the nil error
NilErr ==
    [kind |-> "nil", msg |-> <<>>, code |-> NoCode, inner |-> <<>>]

\* the nil response
NoResp ==
    "nil"

\* errors.New(t)
Plain(t) ==
    [kind |-> "plain", msg |-> t, code |-> NoCode, inner |-> <<>>]

\* context.Canceled
Canceled ==
    [kind |-> "canceled", msg |-> <<"context", "canceled">>, code |-> NoCode,
     inner |-> <<>>]

\* context.DeadlineExceeded
DeadlineExceeded ==
    [kind |-> "deadline", msg |-> <<"context", "deadline", "exceeded">>,
     code |-> NoCode, inner |-> <<>>]

\* an error whose Error() is t and whose Unwrap() is cause
Wrap(t, cause) ==
    [kind |-> "wrap", msg |-> t, code |-> NoCode, inner |-> <<cause>>]

\* an error whose Error() is t and whose Unwrap() []error is causes
Multi(t, causes) ==
    [kind |-> "multi", msg |-> t, code |-> NoCode, inner |-> causes]

\* status.Error(c, m): nil for codes.OK, else an error carrying the status (c, m)
StatusError(c, m) ==
    IF c = "OK"
    THEN NilErr
    ELSE [kind |-> "status", msg |-> m, code |-> c, inner |-> <<>>]

\* err.Error(): a status error prints "rpc error: code = <c> desc = <m>"
ErrorText(e) ==
    IF e.kind = "status"
    THEN <<"rpc", "error", ":", "code", "=", e.code, "desc", "=">> \o e.msg
    ELSE e.msg

\* fmt.Sprintf("%T", err)
TypeName(e) ==
    CASE e.kind = "plain" -> "*errors.errorString"
      [] e.kind = "canceled" -> "*errors.errorString"
      [] e.kind = "deadline" -> "context.deadlineExceededError"
      [] e.kind = "status" -> "*status.Error"
      [] e.kind = "wrap" -> "*fmt.wrapError"
      [] e.kind = "multi" -> "*fmt.wrapErrors"
      [] OTHER -> "<nil>"

\* a broken errors.Is that compares only the error itself and looks through
\* nothing it wraps
IsShallow(e, target) ==
    e # NilErr /\ e = target

\* errors.Is(e, target): e or anything reachable from it by Unwrap (single or
\* multiple) is target
RECURSIVE Is(_, _)
Is(e, target) ==
    /\ e # NilErr
    /\ \/ e = target
       \/ \E i \in 1..Len(e.inner) : Is(e.inner[i], target)

\* errors.Unwrap(e): the cause of an error with Unwrap() error, nil for every
\* other error (also for one with Unwrap() []error)
Unwrap(e) ==
    IF e.kind = "wrap" THEN e.inner[1] ELSE NilErr

\* errors.As(e, &grpcstatus): the first error of the tree, depth first, that
\* has the method GRPCStatus; NilErr when there is none
RECURSIVE AsStatus(_)
AsStatus(e) ==
    LET RECURSIVE firstIn(_, _)
        firstIn(es, i) ==
            IF i > Len(es)
            THEN NilErr
            ELSE LET s == AsStatus(es[i])
                 IN  IF s # NilErr THEN s ELSE firstIn(es, i + 1)
    IN  IF e = NilErr
        THEN NilErr
        ELSE IF e.kind = "status" THEN e ELSE firstIn(e.inner, 1)

\* a status.FromError that only type-asserts the error itself and does not look
\* at what it wraps
FromErrorDirectOnly(e) ==
    IF e = NilErr
    THEN [ok |-> TRUE, code |-> "OK", msg |-> <<>>]
    ELSE IF e.kind = "status"
         THEN [ok |-> TRUE, code |-> e.code, msg |-> e.msg]
         ELSE [ok |-> FALSE, code |-> "Unknown", msg |-> ErrorText(e)]

\* status.FromError(e): ok when e is or wraps an error carrying a status; the
\* status of a wrapping error keeps the code and takes the wrapper's text
FromError(e) ==
    IF e = NilErr
    THEN [ok |-> TRUE, code |-> "OK", msg |-> <<>>]
    ELSE IF e.kind = "status"
         THEN [ok |-> TRUE, code |-> e.code, msg |-> e.msg]
         ELSE LET s == AsStatus(e)
              IN  IF s # NilErr
                  THEN [ok |-> TRUE, code |-> s.code, msg |-> ErrorText(e)]
                  ELSE [ok |-> FALSE, code |-> "Unknown", msg |-> ErrorText(e)]

(***************************************************************************)
(* convertToGRPCError: the return statements and the message rules         *)
(***************************************************************************)
\* the status each return statement but the last builds (lines 130, 134, 147,
\* 150, 158, 163, 166, 169, 175, 178, 183), by the name of the statement
RuleStatus(r) ==
    CASE r = "chainCanceled" ->
           StatusError("Canceled", <<"request", "was", "canceled">>)
      [] r = "chainDeadline" ->
           StatusError("DeadlineExceeded", <<"request", "deadline", "exceeded">>)
      [] r = "msgCanceled" ->
           StatusError("Canceled", <<"request", "was", "canceled">>)
      [] r = "msgDeadline" ->
           StatusError("DeadlineExceeded", <<"request", "deadline", "exceeded">>)
      [] r = "connection" ->
           StatusError("Unavailable", <<"database", "connection", "unavailable">>)
      [] r = "bookingExpired" ->
           StatusError("FailedPrecondition", <<"booking", "already", "expired">>)
      [] r = "reservationRetry" ->
           StatusError("ResourceExhausted", <<"reservation", "max", "retry", "exceeded">>)
      [] r = "releaseRetry" ->
           StatusError("ResourceExhausted",
                       <<"booking", "release", "max", "retry", "exceeded">>)
      [] r = "seats" ->
           StatusError("ResourceExhausted", <<"seats", "are", "not", "available">>)
      [] r = "notForSale" ->
           StatusError("FailedPrecondition",
                       <<"class", "is", "not", "available", "for", "sale">>)
      [] r = "uuid" ->
           StatusError("InvalidArgument", <<"invalid", "UUID", "format">>)

\* a default that returns nothing
DefaultStatusNil(m) ==
    NilErr

\* a default that keeps the code of an unclassified error, codes.Unknown
DefaultStatusUnknown(m) ==
    StatusError("Unknown", m)

\* a default that hides the error text
DefaultStatusOpaque(m) ==
    StatusError("Internal", <<"internal", "error">>)

\* line 187: the default, codes.Internal with the error's own text
DefaultStatus(m) ==
    StatusError("Internal", m)

\* the substring tests with the connection test moved before the context tests
SelectRuleConnectionFirst(m) ==
    IF \/ Contains(m, <<"driver", ":", "bad", "connection">>)
       \/ Contains(m, <<"connection", "refused">>)
       \/ Contains(m, <<"connection", "reset">>)
       \/ Contains(m, <<"broken", "pipe">>)
    THEN "connection"
    ELSE IF Contains(m, <<"context", "canceled">>)
    THEN "msgCanceled"
    ELSE IF Contains(m, <<"context", "deadline", "exceeded">>)
    THEN "msgDeadline"
    ELSE IF Contains(m, <<"booking", "already", "expired">>)
    THEN "bookingExpired"
    ELSE IF Contains(m, <<"reservation", "max", "retry", "exceeded">>)
    THEN "reservationRetry"
    ELSE IF Contains(m, <<"booking", "release", "max", "retry", "exceeded">>)
    THEN "releaseRetry"
    ELSE IF \/ Contains(m, <<"class", "is", "sold", "out">>)
            \/ Contains(m, <<"no", "seat", "available">>)
    THEN "seats"
    ELSE IF Contains(m, <<"class", "is", "not", "available", "for", "sale">>)
    THEN "notForSale"
    ELSE IF Contains(m, <<"invalid", "input", "syntax", "for", "type", "uuid">>)
    THEN "uuid"
    ELSE "default"

\* lines 146-184: the substring tests on errMsg in the order of the code; the
\* first that succeeds names the return statement taken, "default" when none
SelectRule(m) ==
    IF Contains(m, <<"context", "canceled">>)
    THEN "msgCanceled"
    ELSE IF Contains(m, <<"context", "deadline", "exceeded">>)
    THEN "msgDeadline"
    ELSE IF \/ Contains(m, <<"driver", ":", "bad", "connection">>)
            \/ Contains(m, <<"connection", "refused">>)
            \/ Contains(m, <<"connection", "reset">>)
            \/ Contains(m, <<"broken", "pipe">>)
    THEN "connection"
    ELSE IF Contains(m, <<"booking", "already", "expired">>)
    THEN "bookingExpired"
    ELSE IF Contains(m, <<"reservation", "max", "retry", "exceeded">>)
    THEN "reservationRetry"
    ELSE IF Contains(m, <<"booking", "release", "max", "retry", "exceeded">>)
    THEN "releaseRetry"
    ELSE IF \/ Contains(m, <<"class", "is", "sold", "out">>)
            \/ Contains(m, <<"no", "seat", "available">>)
    THEN "seats"
    ELSE IF Contains(m, <<"class", "is", "not", "available", "for", "sale">>)
    THEN "notForSale"
    ELSE IF Contains(m, <<"invalid", "input", "syntax", "for", "type", "uuid">>)
    THEN "uuid"
    ELSE "default"

\* message rules that hand the error text to the caller with the rule's code
MatchMessageLeaky(m) ==
    LET r == SelectRule(m)
    IN  [err |-> IF r = "default"
                 THEN DefaultStatus(m)
                 ELSE StatusError(RuleStatus(r).code, m),
         rule |-> r]

\* lines 146-187: the status returned for the text errMsg and the return
\* statement that builds it
MatchMessage(m) ==
    LET r == SelectRule(m)
    IN  [err |-> IF r = "default" THEN DefaultStatus(m) ELSE RuleStatus(r),
         rule |-> r]

\* lines 127-138 run to the end: the loop over the Unwrap chain of u, "none"
\* when the chain ends without a sentinel
RECURSIVE WalkChain(_)
WalkChain(u) ==
    IF u = NilErr
    THEN [err |-> NilErr, rule |-> "none"]
    ELSE IF Is(u, Canceled)
    THEN [err |-> RuleStatus("chainCanceled"), rule |-> "chainCanceled"]
    ELSE IF Is(u, DeadlineExceeded)
    THEN [err |-> RuleStatus("chainDeadline"), rule |-> "chainDeadline"]
    ELSE WalkChain(Unwrap(u))

\* convertToGRPCError(e) run alone, as a function of its argument: the error it
\* returns and the return statement it takes
convertToGRPCError(e) ==
    IF FromError(e).ok
    THEN [err |-> e, rule |-> "passthrough"]
    ELSE LET w == WalkChain(e)
         IN  IF w.rule # "none" THEN w ELSE MatchMessage(ErrorText(e))

(***************************************************************************)
(* The errors and handler outcomes the calls are run on                    *)
(***************************************************************************)
\* the substrings the code tests for, and pieces that build or miss them
Fragments ==
    {<<"context", "canceled">>,
     <<"context", "deadline", "exceeded">>,
     <<"driver", ":", "bad", "connection">>,
     <<"connection", "refused">>,
     <<"connection", "reset">>,
     <<"broken", "pipe">>,
     <<"booking", "already", "expired">>,
     <<"reservation", "max", "retry", "exceeded">>,
     <<"booking", "release", "max", "retry", "exceeded">>,
     <<"class", "is", "sold", "out">>,
     <<"no", "seat", "available">>,
     <<"class", "is", "not", "available", "for", "sale">>,
     <<"invalid", "input", "syntax", "for", "type", "uuid">>,
     <<"context">>,
     <<"canceled">>,
     <<"max", "retry", "exceeded">>,
     <<"unexpected", "nil", "pointer">>}

\* the texts made of at most n fragments; the empty text is one of them
RECURSIVE TextsOf(_)
TextsOf(n) ==
    IF n = 0
    THEN {<<>>}
    ELSE LET T == TextsOf(n - 1)
         IN  T \cup {t \o f : t \in T, f \in Fragments}

Texts ==
    TextsOf(MaxFragments)

\* the text of an error below the top of a chain; the classifier never reads it
InnerText ==
    <<"repository", "error">>

\* texts of a top-level error that wraps other errors
WrapTexts ==
    {<<>>,
     <<"get", "booking", "failed">>,
     <<"dial", "tcp", ":", "connection", "refused">>,
     <<"query", ":", "context", "deadline", "exceeded">>,
     <<"rollback", ":", "context", "canceled">>}

StatusMsgs ==
    {<<"booking", "not", "found">>, <<"seat", "7", "is", "held">>}

InnerLeaves ==
    {Plain(InnerText), Canceled, DeadlineExceeded,
     StatusError("FailedPrecondition", <<"seat", "7", "is", "held">>),
     StatusError("NotFound", <<"booking", "not", "found">>)}

\* a leaf wrapped at most d times
RECURSIVE ChainOf(_)
ChainOf(d) ==
    IF d = 0
    THEN InnerLeaves
    ELSE LET C == ChainOf(d - 1)
         IN  C \cup {Wrap(InnerText, x) : x \in C}

\* errors.Join(x, y): the texts on two lines
Join(x, y) ==
    Multi(ErrorText(x) \o <<"\n">> \o ErrorText(y), <<x, y>>)

\* what a top-level error wraps: a chain, a join of two chains, a wrapped join
Inner ==
    LET J == {Join(x, y) : x, y \in ChainOf(MaxDepth - 2)}
    IN  ChainOf(MaxDepth - 1) \cup J \cup {Wrap(InnerText, j) : j \in J}

Errors ==
    {Plain(t) : t \in Texts}
        \cup {Wrap(t, Plain(InnerText)) : t \in Texts}
        \cup {Canceled, DeadlineExceeded}
        \cup {StatusError(c, m) : c \in Codes \ {"OK"}, m \in StatusMsgs}
        \cup {Wrap(t, x) : t \in WrapTexts, x \in Inner}
        \cup {Multi(t, <<x, y>>) : t \in WrapTexts, x, y \in ChainOf(MaxDepth - 2)}

\* the errors of the calls that run concurrently
ConcErrors ==
    {Plain(<<"dial", "tcp", ":", "connection", "refused">>),
     Plain(<<"write", ":", "broken", "pipe">>),
     Plain(<<"unexpected", "nil", "pointer">>),
     Plain(<<"pq", ":", "invalid", "input", "syntax", "for", "type", "uuid">>),
     Wrap(<<"get", "booking", "failed">>, Canceled),
     Wrap(<<"get", "booking", "failed">>,
          StatusError("NotFound", <<"booking", "not", "found">>))}

Resps ==
    {"booking", "seatmap"}

\* what a handler returns: a response and no error, no response and an error, or
\* both a response and an error
Outcomes ==
    {[resp |-> r, err |-> NilErr] : r \in Resps}
        \cup {[resp |-> NoResp, err |-> e] : e \in Errors}
        \cup {[resp |-> r, err |-> e] : r \in Resps, e \in ConcErrors}

ConcOutcomes ==
    {[resp |-> "booking", err |-> NilErr]}
        \cup {[resp |-> NoResp, err |-> e] : e \in ConcErrors}
        \cup {[resp |-> "seatmap", err |-> Plain(<<"unexpected", "nil", "pointer">>)]}

(***************************************************************************)
(* The state machine                                                       *)
(***************************************************************************)
\* the calls in active are about to enter the interceptor, each with the
\* outcome its handler will produce
InitWith(active, outs) ==
    /\ calls = active
    /\ \E o \in [active -> outs] :
          /\ handlerResp = [p \in Calls |-> IF p \in active THEN o[p].resp ELSE NoResp]
          /\ handlerErr = [p \in Calls |-> IF p \in active THEN o[p].err ELSE NilErr]
    /\ pc = [p \in Calls |-> IF p \in active THEN "start" ELSE "idle"]
    /\ resp = [p \in Calls |-> NoResp]
    /\ err = [p \in Calls |-> NilErr]
    /\ unwrappedErr = [p \in Calls |-> NilErr]
    /\ errMsg = [p \in Calls |-> <<>>]
    /\ ret = [p \in Calls |-> NilErr]
    /\ rule = [p \in Calls |-> "none"]
    /\ outResp = [p \in Calls |-> NoResp]
    /\ outErr = [p \in Calls |-> NilErr]
    /\ handlerCalls = [p \in Calls |-> 0]
    /\ classifierCalls = [p \in Calls |-> 0]
    /\ logSink = <<>>

\* one call, any outcome
Init ==
    InitWith({1}, Outcomes)

\* NumCalls calls at once
ConcInit ==
    InitWith(Calls, ConcOutcomes)

\* line 111: resp, err := handler(ctx, req)
CallHandler(p) ==
    /\ pc[p] = "start"
    /\ resp' = [resp EXCEPT ![p] = handlerResp[p]]
    /\ err' = [err EXCEPT ![p] = handlerErr[p]]
    /\ handlerCalls' = [handlerCalls EXCEPT ![p] = @ + 1]
    /\ pc' = [pc EXCEPT ![p] = "handled"]
    /\ UNCHANGED <<calls, handlerResp, handlerErr, unwrappedErr, errMsg, ret, rule,
                   outResp, outErr, classifierCalls, logSink>>

\* lines 112, 115: err == nil, return resp, nil
ReturnResponse(p) ==
    /\ pc[p] = "handled"
    /\ err[p] = NilErr
    /\ outResp' = [outResp EXCEPT ![p] = resp[p]]
    /\ outErr' = [outErr EXCEPT ![p] = NilErr]
    /\ pc' = [pc EXCEPT ![p] = "done"]
    /\ UNCHANGED <<calls, handlerResp, handlerErr, resp, err, unwrappedErr, errMsg,
                   ret, rule, handlerCalls, classifierCalls, logSink>>

\* lines 112-113, 119-126: err != nil, convertToGRPCError(err) is entered; an
\* error that carries a status is returned as it is, any other starts the walk
CheckStatus(p) ==
    /\ pc[p] = "handled"
    /\ err[p] # NilErr
    /\ classifierCalls' = [classifierCalls EXCEPT ![p] = @ + 1]
    /\ IF FromError(err[p]).ok
       THEN /\ ret' = [ret EXCEPT ![p] = err[p]]
            /\ rule' = [rule EXCEPT ![p] = "passthrough"]
            /\ pc' = [pc EXCEPT ![p] = "return"]
            /\ UNCHANGED unwrappedErr
       ELSE /\ unwrappedErr' = [unwrappedErr EXCEPT ![p] = err[p]]
            /\ pc' = [pc EXCEPT ![p] = "walk"]
            /\ UNCHANGED <<ret, rule>>
    /\ UNCHANGED <<calls, handlerResp, handlerErr, resp, err, errMsg, outResp, outErr,
                   handlerCalls, logSink>>

\* the loop body with the deadline test made before the canceled test
WalkStepDeadlineFirst(p) ==
    /\ pc[p] = "walk"
    /\ IF unwrappedErr[p] = NilErr
       THEN /\ pc' = [pc EXCEPT ![p] = "log"]
            /\ UNCHANGED <<unwrappedErr, ret, rule>>
       ELSE IF Is(unwrappedErr[p], DeadlineExceeded)
       THEN /\ ret' = [ret EXCEPT ![p] = RuleStatus("chainDeadline")]
            /\ rule' = [rule EXCEPT ![p] = "chainDeadline"]
            /\ pc' = [pc EXCEPT ![p] = "return"]
            /\ UNCHANGED unwrappedErr
       ELSE IF Is(unwrappedErr[p], Canceled)
       THEN /\ ret' = [ret EXCEPT ![p] = RuleStatus("chainCanceled")]
            /\ rule' = [rule EXCEPT ![p] = "chainCanceled"]
            /\ pc' = [pc EXCEPT ![p] = "return"]
            /\ UNCHANGED unwrappedErr
       ELSE /\ unwrappedErr' = [unwrappedErr EXCEPT ![p] = Unwrap(unwrappedErr[p])]
            /\ UNCHANGED <<pc, ret, rule>>
    /\ UNCHANGED <<calls, handlerResp, handlerErr, resp, err, errMsg, outResp, outErr,
                   handlerCalls, classifierCalls, logSink>>

\* lines 127-138: one test of the loop condition and, when unwrappedErr is not
\* nil, one pass of the body
WalkStep(p) ==
    /\ pc[p] = "walk"
    /\ IF unwrappedErr[p] = NilErr
       THEN /\ pc' = [pc EXCEPT ![p] = "log"]
            /\ UNCHANGED <<unwrappedErr, ret, rule>>
       ELSE IF Is(unwrappedErr[p], Canceled)
       THEN /\ ret' = [ret EXCEPT ![p] = RuleStatus("chainCanceled")]
            /\ rule' = [rule EXCEPT ![p] = "chainCanceled"]
            /\ pc' = [pc EXCEPT ![p] = "return"]
            /\ UNCHANGED unwrappedErr
       ELSE IF Is(unwrappedErr[p], DeadlineExceeded)
       THEN /\ ret' = [ret EXCEPT ![p] = RuleStatus("chainDeadline")]
            /\ rule' = [rule EXCEPT ![p] = "chainDeadline"]
            /\ pc' = [pc EXCEPT ![p] = "return"]
            /\ UNCHANGED unwrappedErr
       ELSE /\ unwrappedErr' = [unwrappedErr EXCEPT ![p] = Unwrap(unwrappedErr[p])]
            /\ UNCHANGED <<pc, ret, rule>>
    /\ UNCHANGED <<calls, handlerResp, handlerErr, resp, err, errMsg, outResp, outErr,
                   handlerCalls, classifierCalls, logSink>>

\* lines 141-145: errMsg := err.Error() and the debug record written to the
\* process-wide logger
LogDebug(p) ==
    /\ pc[p] = "log"
    /\ errMsg' = [errMsg EXCEPT ![p] = ErrorText(err[p])]
    /\ logSink' = Append(logSink, [error_type |-> TypeName(err[p]),
                                   error_msg |-> ErrorText(err[p])])
    /\ pc' = [pc EXCEPT ![p] = "match"]
    /\ UNCHANGED <<calls, handlerResp, handlerErr, resp, err, unwrappedErr, ret, rule,
                   outResp, outErr, handlerCalls, classifierCalls>>

\* the text taken back from the last record of the shared log sink
ReadErrMsgFromLog(p) ==
    IF logSink = <<>> THEN errMsg[p] ELSE logSink[Len(logSink)].error_msg

\* lines 146-182: the text the substring tests read, the local errMsg
ReadErrMsg(p) ==
    errMsg[p]

\* lines 146-187: the message rules and the default
MatchStep(p) ==
    /\ pc[p] = "match"
    /\ LET r == MatchMessage(ReadErrMsg(p))
       IN  /\ ret' = [ret EXCEPT ![p] = r.err]
           /\ rule' = [rule EXCEPT ![p] = r.rule]
    /\ pc' = [pc EXCEPT ![p] = "return"]
    /\ UNCHANGED <<calls, handlerResp, handlerErr, resp, err, unwrappedErr, errMsg,
                   outResp, outErr, handlerCalls, classifierCalls, logSink>>

\* an interceptor that hands the handler's own error back
ReturnErrorUnconverted(p) ==
    /\ pc[p] = "return"
    /\ outResp' = [outResp EXCEPT ![p] = NoResp]
    /\ outErr' = [outErr EXCEPT ![p] = err[p]]
    /\ pc' = [pc EXCEPT ![p] = "done"]
    /\ UNCHANGED <<calls, handlerResp, handlerErr, resp, err, unwrappedErr, errMsg,
                   ret, rule, handlerCalls, classifierCalls, logSink>>

\* line 113: return nil, <what convertToGRPCError returned>
ReturnError(p) ==
    /\ pc[p] = "return"
    /\ outResp' = [outResp EXCEPT ![p] = NoResp]
    /\ outErr' = [outErr EXCEPT ![p] = ret[p]]
    /\ pc' = [pc EXCEPT ![p] = "done"]
    /\ UNCHANGED <<calls, handlerResp, handlerErr, resp, err, unwrappedErr, errMsg,
                   ret, rule, handlerCalls, classifierCalls, logSink>>

Next ==
    \/ \E p \in calls : CallHandler(p)
    \/ \E p \in calls : ReturnResponse(p)
    \/ \E p \in calls : CheckStatus(p)
    \/ \E p \in calls : WalkStep(p)
    \/ \E p \in calls : LogDebug(p)
    \/ \E p \in calls : MatchStep(p)
    \/ \E p \in calls : ReturnError(p)

\* one call through the interceptor
Spec ==
    Init /\ [][Next]_vars

\* NumCalls calls through the interceptor, their steps interleaved
ConcurrentSpec ==
    ConcInit /\ [][Next]_vars

(***************************************************************************)
(* Vocabulary of the properties                                            *)
(***************************************************************************)
\* call p has left the interceptor
Done(p) ==
    p \in calls /\ pc[p] = "done"

\* call p has left the interceptor and its handler had returned an error
Failed(p) ==
    Done(p) /\ handlerErr[p] # NilErr

\* e is, or wraps at some depth, an error that carries a status object
RECURSIVE HasStatus(_)
HasStatus(e) ==
    e.kind = "status" \/ \E i \in 1..Len(e.inner) : HasStatus(e.inner[i])

\* the sentinel s is e or is reachable from e by unwrapping
RECURSIVE Reaches(_, _)
Reaches(e, s) ==
    e = s \/ \E i \in 1..Len(e.inner) : Reaches(e.inner[i], s)

\* e carries no status and reaches neither sentinel: only its text classifies it
TextOnly(e) ==
    /\ e # NilErr
    /\ ~HasStatus(e)
    /\ ~Reaches(e, Canceled)
    /\ ~Reaches(e, DeadlineExceeded)

\* the rules of the message fallback, in the order the specification lists them
ListedRules ==
    <<[subs |-> {<<"context", "canceled">>},
       code |-> "Canceled", msg |-> <<"request", "was", "canceled">>],
      [subs |-> {<<"context", "deadline", "exceeded">>},
       code |-> "DeadlineExceeded", msg |-> <<"request", "deadline", "exceeded">>],
      [subs |-> {<<"driver", ":", "bad", "connection">>, <<"connection", "refused">>,
                 <<"connection", "reset">>, <<"broken", "pipe">>},
       code |-> "Unavailable", msg |-> <<"database", "connection", "unavailable">>],
      [subs |-> {<<"booking", "already", "expired">>},
       code |-> "FailedPrecondition", msg |-> <<"booking", "already", "expired">>],
      [subs |-> {<<"reservation", "max", "retry", "exceeded">>},
       code |-> "ResourceExhausted",
       msg |-> <<"reservation", "max", "retry", "exceeded">>],
      [subs |-> {<<"booking", "release", "max", "retry", "exceeded">>},
       code |-> "ResourceExhausted",
       msg |-> <<"booking", "release", "max", "retry", "exceeded">>],
      [subs |-> {<<"class", "is", "sold", "out">>, <<"no", "seat", "available">>},
       code |-> "ResourceExhausted", msg |-> <<"seats", "are", "not", "available">>],
      [subs |-> {<<"class", "is", "not", "available", "for", "sale">>},
       code |-> "FailedPrecondition",
       msg |-> <<"class", "is", "not", "available", "for", "sale">>],
      [subs |-> {<<"invalid", "input", "syntax", "for", "type", "uuid">>},
       code |-> "InvalidArgument", msg |-> <<"invalid", "UUID", "format">>]>>

\* rule i of the list matches the text t
Matches(i, t) ==
    \E sub \in ListedRules[i].subs : Contains(t, sub)

\* the first listed rule that matches t, 0 when none does
FirstListed(t) ==
    IF \E i \in 1..Len(ListedRules) : Matches(i, t)
    THEN CHOOSE i \in 1..Len(ListedRules) :
             Matches(i, t) /\ \A j \in 1..(i - 1) : ~Matches(j, t)
    ELSE 0

CanceledStatus ==
    [kind |-> "status", msg |-> <<"request", "was", "canceled">>, code |-> "Canceled",
     inner |-> <<>>]

DeadlineStatus ==
    [kind |-> "status", msg |-> <<"request", "deadline", "exceeded">>,
     code |-> "DeadlineExceeded", inner |-> <<>>]

\* the seven codes of the classifier's own rules
SevenCodes ==
    {"Canceled", "DeadlineExceeded", "InvalidArgument", "FailedPrecondition",
     "ResourceExhausted", "Unavailable", "Internal"}

(***************************************************************************)
(* Properties                                                              *)
(***************************************************************************)
\* C1: an error with no status and no sentinel in its chain whose text matches
\* a listed rule gets the code and message of the first listed rule that
\* matches; a text with both "context canceled" and "connection refused" gets
\* Canceled.
C1_FirstListedRuleWins ==
    \A p \in calls :
        (Failed(p) /\ TextOnly(handlerErr[p])
                   /\ FirstListed(ErrorText(handlerErr[p])) # 0)
        => LET r == ListedRules[FirstListed(ErrorText(handlerErr[p]))]
           IN  outErr[p] = [kind |-> "status", msg |-> r.msg, code |-> r.code,
                            inner |-> <<>>]

C1_Witness ==
    \E p \in calls :
        /\ Failed(p)
        /\ TextOnly(handlerErr[p])
        /\ Contains(ErrorText(handlerErr[p]), <<"context", "canceled">>)
        /\ Contains(ErrorText(handlerErr[p]), <<"connection", "refused">>)
        /\ outErr[p] = CanceledStatus

\* C2 as stated: a status-less error that reaches the canceled sentinel gets
\* (Canceled, "request was canceled") and one that reaches the deadline
\* sentinel gets (DeadlineExceeded, "request deadline exceeded"), whatever its
\* text.
C2_SentinelDecides ==
    \A p \in calls :
        (Failed(p) /\ ~HasStatus(handlerErr[p]))
        => /\ Reaches(handlerErr[p], Canceled) => outErr[p] = CanceledStatus
           /\ Reaches(handlerErr[p], DeadlineExceeded) => outErr[p] = DeadlineStatus

\* C2 amended: a status-less error that reaches the canceled sentinel gets
\* (Canceled, "request was canceled"); one that reaches the deadline sentinel
\* and not the canceled sentinel gets (DeadlineExceeded, "request deadline
\* exceeded"); in both cases whatever its text.
C2_SentinelDecidesCanceledFirst ==
    \A p \in calls :
        (Failed(p) /\ ~HasStatus(handlerErr[p]))
        => /\ Reaches(handlerErr[p], Canceled) => outErr[p] = CanceledStatus
           /\ (Reaches(handlerErr[p], DeadlineExceeded)
                  /\ ~Reaches(handlerErr[p], Canceled))
              => outErr[p] = DeadlineStatus

\* the deadline sentinel three Unwraps down, under a text of the connection rule
C2_Witness ==
    \E p \in calls :
        /\ Failed(p)
        /\ Unwrap(Unwrap(Unwrap(handlerErr[p]))) = DeadlineExceeded
        /\ Contains(ErrorText(handlerErr[p]), <<"connection", "refused">>)
        /\ ~Contains(ErrorText(handlerErr[p]), <<"context", "deadline", "exceeded">>)
        /\ outErr[p] = DeadlineStatus

\* C3: an error that is or wraps an error carrying a status is returned as it
\* is, the same error with its code and message, also when a sentinel is in
\* its chain or its text matches a rule; classifying what the classifier
\* returned gives it back unchanged.
C3_StatusPassthrough ==
    \A p \in calls :
        Failed(p)
        => /\ HasStatus(handlerErr[p])
              => outErr[p] = handlerErr[p] /\ rule[p] = "passthrough"
           /\ convertToGRPCError(outErr[p]).err = outErr[p]

\* a wrapped status error with the canceled sentinel beside it and a text of
\* the canceled rule
C3_Witness ==
    \E p \in calls :
        /\ Failed(p)
        /\ handlerErr[p].kind = "wrap"
        /\ HasStatus(handlerErr[p])
        /\ Reaches(handlerErr[p], Canceled)
        /\ Contains(ErrorText(handlerErr[p]), <<"context", "canceled">>)
        /\ outErr[p] = handlerErr[p]

\* the steps of call p
StepOf(p) ==
    \/ CallHandler(p)
    \/ ReturnResponse(p)
    \/ CheckStatus(p)
    \/ WalkStep(p)
    \/ LogDebug(p)
    \/ MatchStep(p)
    \/ ReturnError(p)

\* C4: for every non-nil error the classifier returns a non-nil error that
\* carries a status with one code of the protocol, and a call that has not
\* returned always has a next step: the classification never stops short.
C4_Total ==
    \A p \in calls :
        /\ Failed(p)
           => /\ outErr[p] # NilErr
              /\ HasStatus(outErr[p])
              /\ FromError(outErr[p]).ok
              /\ FromError(outErr[p]).code \in Codes
        /\ ~Done(p) => ENABLED StepOf(p)

\* a join, which errors.Unwrap does not open, classified by the default
C4_Witness ==
    \E p \in calls :
        /\ Failed(p)
        /\ handlerErr[p].kind = "multi"
        /\ rule[p] = "default"
        /\ outErr[p].kind = "status"

\* C5 as stated: the code returned for a non-nil error is never OK and is one
\* of the seven codes of the rule set.
C5_OnlySevenCodes ==
    \A p \in calls :
        Failed(p) => FromError(outErr[p]).code \in SevenCodes

\* C5 amended: the code returned for a non-nil error that carries no status is
\* never OK and is one of the seven codes; an error that carries a status
\* keeps the code of that status, which is any code a handler chose.
C5_SevenCodesUnlessStatus ==
    \A p \in calls :
        Failed(p)
        => IF HasStatus(handlerErr[p])
           THEN FromError(outErr[p]).code = FromError(handlerErr[p]).code
           ELSE FromError(outErr[p]).code \in SevenCodes

\* the default rule, whose code is the one the rule set could get wrong
C5_Witness ==
    \E p \in calls :
        /\ Failed(p)
        /\ ~HasStatus(handlerErr[p])
        /\ rule[p] = "default"
        /\ FromError(outErr[p]).code = "Internal"

\* every (return statement, message sent to the caller) pair the classifier
\* produces on the errors of the model
Classified ==
    {[rule |-> convertToGRPCError(e).rule,
      msg |-> FromError(convertToGRPCError(e).err).msg] : e \in Errors}

\* C6 as stated: two errors classified by the same rule other than the default
\* get the same message.
C6_FixedMessageAllButDefault ==
    \A p \in calls :
        (Failed(p) /\ rule[p] # "default")
        => \A c \in Classified :
               c.rule = rule[p] => c.msg = FromError(outErr[p]).msg

\* C6 amended: two errors classified by the same rule other than the default
\* and the already-classified passthrough get the same message; the
\* passthrough hands on the message of the error it is given.
C6_FixedMessage ==
    \A p \in calls :
        (Failed(p) /\ rule[p] \notin {"default", "passthrough"})
        => \A c \in Classified :
               c.rule = rule[p] => c.msg = FromError(outErr[p]).msg

\* an error of the connection rule, which errors with other texts share
C6_Witness ==
    \E p \in calls :
        /\ Failed(p)
        /\ rule[p] = "connection"
        /\ Contains(ErrorText(handlerErr[p]), <<"broken", "pipe">>)
        /\ \E e \in Errors :
               /\ convertToGRPCError(e).rule = "connection"
               /\ ~Contains(ErrorText(e), <<"broken", "pipe">>)
        /\ outErr[p].msg = <<"database", "connection", "unavailable">>

\* C7: an error with no status, no sentinel and no listed substring gets
\* Internal with its own text as the message; an empty text gets Internal with
\* an empty message.
C7_DefaultVerbatim ==
    \A p \in calls :
        (Failed(p) /\ TextOnly(handlerErr[p])
                   /\ FirstListed(ErrorText(handlerErr[p])) = 0)
        => outErr[p] = [kind |-> "status", msg |-> ErrorText(handlerErr[p]),
                        code |-> "Internal", inner |-> <<>>]

C7_Witness ==
    \E p \in calls :
        /\ Failed(p)
        /\ handlerErr[p] = Plain(<<>>)
        /\ outErr[p] = [kind |-> "status", msg |-> <<>>, code |-> "Internal",
                        inner |-> <<>>]

\* C8: the interceptor calls the handler once; the classifier runs only after
\* the handler has returned an error, once; a call whose handler returned no
\* error returns the handler's response and a nil error without the
\* classifier; a call whose handler returned an error returns a nil response
\* and what the classifier returned.
C8_InterceptorContract ==
    \A p \in calls :
        /\ handlerCalls[p] \in {0, 1}
        /\ classifierCalls[p] \in {0, 1}
        /\ pc[p] = "start" <=> handlerCalls[p] = 0
        /\ classifierCalls[p] = 1
           => handlerCalls[p] = 1 /\ err[p] = handlerErr[p] /\ err[p] # NilErr
        /\ (Done(p) /\ handlerErr[p] = NilErr)
           => /\ classifierCalls[p] = 0
              /\ outResp[p] = handlerResp[p]
              /\ outErr[p] = NilErr
        /\ (Done(p) /\ handlerErr[p] # NilErr)
           => /\ classifierCalls[p] = 1
              /\ outResp[p] = NoResp
              /\ outErr[p] = ret[p]
              /\ outErr[p] = convertToGRPCError(handlerErr[p]).err

\* a handler that returned both a response and an error
C8_Witness ==
    \E p \in calls :
        /\ Done(p)
        /\ handlerResp[p] # NoResp
        /\ handlerErr[p] # NilErr
        /\ outResp[p] = NoResp
        /\ outErr[p] # handlerErr[p]
        /\ classifierCalls[p] = 1

\* C9: however the steps of concurrent calls interleave, each call gets the
\* error convertToGRPCError returns when run alone on that call's error, by the
\* same return statement; the records written to the shared log change nothing.
C9_IndependentOfInterleaving ==
    \A p \in calls :
        Failed(p)
        => /\ outErr[p] = convertToGRPCError(handlerErr[p]).err
           /\ rule[p] = convertToGRPCError(handlerErr[p]).rule

\* both calls have written their log records, p first; q has been classified
\* and has returned in between, and p is about to match its own text while the
\* last record of the sink is q's
C9_Witness ==
    \E p, q \in calls :
        /\ p # q
        /\ pc[p] = "match"
        /\ Failed(q)
        /\ logSink = <<[error_type |-> TypeName(err[p]), error_msg |-> errMsg[p]],
                       [error_type |-> TypeName(err[q]), error_msg |-> errMsg[q]]>>
        /\ SelectRule(errMsg[p]) # SelectRule(errMsg[q])
        /\ outErr[q] = convertToGRPCError(handlerErr[q]).err

\* C10: a status-less error that reaches both sentinels gets Canceled, whichever
\* sentinel is nearer to the top.
C10_CanceledBeforeDeadline ==
    \A p \in calls :
        (Failed(p) /\ ~HasStatus(handlerErr[p])
                   /\ Reaches(handlerErr[p], Canceled)
                   /\ Reaches(handlerErr[p], DeadlineExceeded))
        => outErr[p] = CanceledStatus

\* the deadline sentinel first and nearer to the top than the canceled one
C10_Witness ==
    \E p \in calls :
        /\ Failed(p)
        /\ handlerErr[p].kind = "multi"
        /\ handlerErr[p].inner[1] = DeadlineExceeded
        /\ handlerErr[p].inner[2] = Wrap(InnerText, Canceled)
        /\ outErr[p] = CanceledStatus

====
